---- MODULE Spec2Model ----
(***************************************************************************)
(* Repo Analysis Service (codie/repo_analysis/app/main.py).                *)
(*                                                                         *)
(* A request carries a language tag and a source text.  The endpoint       *)
(* parse_code_and_analyze checks the tag, loads the parser, parses the     *)
(* text, rejects trees with syntax errors, runs build_call_graph (two      *)
(* breadth-first passes over the syntax tree) and then the complexity      *)
(* adapter, and returns {call_graph, complexity}.                          *)
(*                                                                         *)
(* A syntax tree is an arena of nodes numbered in source (pre-) order:     *)
(*   kind[n]   the node's type tag                                         *)
(*   parent[n] the index of the parent, 0 for the root                     *)
(*   text[n]   the characters of the node's own leading token              *)
(* The source text is the concatenation of the tokens; a node's byte range *)
(* is counted in UTF-8 bytes, as the parser reports it.                    *)
(***************************************************************************)
EXTENDS Integers, Sequences, FiniteSets, TLC

\* ------------------------------------------------------------------ bounds
\* Largest number of nodes of an enumerated syntax tree.
MaxNodes == 4
\* Largest complexity score the complexity adapter reports.
MaxScore == 2
\* Number of times one request is issued (repeated calls on the same input).
MaxRuns == 2

\* ------------------------------------------------------- characters, text
\* The characters of the modelled source texts; WideChar stands for a
\* character whose UTF-8 encoding takes two bytes.
WideChar == "E2"

\* Number of bytes of character c in bytes(code, "utf8").
UTF8Len(c) == IF c = WideChar THEN 2 ELSE 1

RECURSIVE ByteLen(_)
\* Number of bytes of a character sequence in UTF-8.
ByteLen(s) == IF s = <<>> THEN 0 ELSE UTF8Len(Head(s)) + ByteLen(Tail(s))

Min(a, b) == IF a < b THEN a ELSE b

\* Python slice s[lo:hi] of a str for 0 <= lo, 0 <= hi: indices count
\* characters (code points) and are clamped to the length.
Slice(s, lo, hi) == SubSeq(s, Min(lo, Len(s)) + 1, Min(hi, Len(s)))

\* ------------------------------------------------------------ syntax tree
NodeIds(t) == 1..Len(t.kind)

RECURSIVE ChildrenFrom(_, _, _)
ChildrenFrom(t, n, i) ==
    IF i > Len(t.kind) THEN <<>>
    ELSE (IF t.parent[i] = n THEN <<i>> ELSE <<>>) \o ChildrenFrom(t, n, i + 1)

\* node.children: the children of n in source order.
children(t, n) == ChildrenFrom(t, n, n + 1)

RECURSIVE IsAncestor(_, _, _)
\* a is a proper ancestor of n.
IsAncestor(t, a, n) ==
    IF t.parent[n] = 0 THEN FALSE
    ELSE t.parent[n] = a \/ IsAncestor(t, a, t.parent[n])

\* The nodes of the subtree rooted at n.
Subtree(t, n) == {m \in NodeIds(t) : m = n \/ IsAncestor(t, n, m)}

RECURSIVE BytesUpTo(_, _)
\* Bytes of the tokens of nodes 1..i.
BytesUpTo(t, i) == IF i = 0 THEN 0 ELSE BytesUpTo(t, i - 1) + ByteLen(t.text[i])

\* The last node of n's subtree in source order.
LastOf(t, n) == CHOOSE m \in Subtree(t, n) : \A k \in Subtree(t, n) : k <= m

\* node.start_byte and node.end_byte: offsets into the UTF-8 encoded buffer.
start_byte(t, n) == BytesUpTo(t, n - 1)
end_byte(t, n) == BytesUpTo(t, LastOf(t, n))

RECURSIVE CodeFrom(_, _)
CodeFrom(t, i) == IF i > Len(t.kind) THEN <<>> ELSE t.text[i] \o CodeFrom(t, i + 1)

\* payload.code: the source text (a str, a sequence of characters).
CodeOf(t) == CodeFrom(t, 1)

\* root_node.has_error: the tree holds an ERROR node.
has_error(t) == \E n \in NodeIds(t) : t.kind[n] = "ERROR"

\* ----------------------------------------------------- enumerated trees
Tok(k, s) == [kind |-> k, text |-> s]

\* The node kinds and tokens of the enumerated trees.
GenTokens ==
    { Tok("function_definition", <<>>), Tok("call", <<>>), Tok("block", <<>>),
      Tok("identifier", <<"a">>), Tok("identifier", <<"b">>),
      Tok("comment", <<WideChar>>) }

\* The nodes a new last node can hang from: the last node and its ancestors
\* (source order), identifiers and comments being leaves.
OpenNodes(t) ==
    {p \in NodeIds(t) : /\ (p = Len(t.kind) \/ IsAncestor(t, p, Len(t.kind)))
                        /\ t.kind[p] \notin {"identifier", "comment"}}

Extend(t, p, tok) ==
    [kind   |-> Append(t.kind, tok.kind),
     parent |-> Append(t.parent, p),
     text   |-> Append(t.text, tok.text)]

RECURSIVE TreesOfSize(_)
\* Every module tree of exactly n nodes over GenTokens.
TreesOfSize(n) ==
    IF n = 1 THEN {[kind |-> <<"module">>, parent |-> <<0>>, text |-> << <<>> >>]}
    ELSE UNION { {Extend(t, p, tok) : p \in OpenNodes(t), tok \in GenTokens}
                 : t \in TreesOfSize(n - 1) }

GenTrees == UNION {TreesOfSize(n) : n \in 1..MaxNodes}

\* ---------------------------------------------------------- example trees
\* Tree(<< <<kind, parent, text>>, ... >>): nodes listed in source order.
Tree(nodes) ==
    [kind   |-> [i \in 1..Len(nodes) |-> nodes[i][1]],
     parent |-> [i \in 1..Len(nodes) |-> nodes[i][2]],
     text   |-> [i \in 1..Len(nodes) |-> nodes[i][3]]]

NameF == <<"f">>
NameG == <<"g">>
NameA == <<"a">>
NameB == <<"b">>
NamePrint == <<"p", "r", "i", "n", "t">>
NameOuter == <<"o", "u", "t", "e", "r">>
NameInner == <<"i", "n", "n", "e", "r">>
NameHelper == <<"h", "e", "l", "p", "e", "r">>
KwDef == <<"d", "e", "f", " ">>
KwClass == <<"c", "l", "a", "s", "s", " ">>
KwParams == <<"(", ")", ":">>
KwArgs == <<"(", ")">>

\* def f(): print(1)
ExExternalCall == Tree(<<
    <<"module", 0, <<>> >>,
    <<"function_definition", 1, KwDef>>,
    <<"identifier", 2, NameF>>,
    <<"parameters", 2, KwParams>>,
    <<"block", 2, <<>> >>,
    <<"expression_statement", 5, <<>> >>,
    <<"call", 6, <<>> >>,
    <<"identifier", 7, NamePrint>>,
    <<"argument_list", 7, <<"(">> >>,
    <<"integer", 9, <<"1", ")">> >> >>)

\* def f(): f()
ExSelfRecursion == Tree(<<
    <<"module", 0, <<>> >>,
    <<"function_definition", 1, KwDef>>,
    <<"identifier", 2, NameF>>,
    <<"parameters", 2, KwParams>>,
    <<"block", 2, <<>> >>,
    <<"expression_statement", 5, <<>> >>,
    <<"call", 6, <<>> >>,
    <<"identifier", 7, NameF>>,
    <<"argument_list", 7, KwArgs>> >>)

\* Two top-level functions, x first, each calling the other.
MutualTree(x, y) == Tree(<<
    <<"module", 0, <<>> >>,
    <<"function_definition", 1, KwDef>>,
    <<"identifier", 2, x>>,
    <<"parameters", 2, KwParams>>,
    <<"block", 2, <<>> >>,
    <<"expression_statement", 5, <<>> >>,
    <<"call", 6, <<>> >>,
    <<"identifier", 7, y>>,
    <<"argument_list", 7, KwArgs>>,
    <<"function_definition", 1, KwDef>>,
    <<"identifier", 10, y>>,
    <<"parameters", 10, KwParams>>,
    <<"block", 10, <<>> >>,
    <<"expression_statement", 13, <<>> >>,
    <<"call", 14, <<>> >>,
    <<"identifier", 15, x>>,
    <<"argument_list", 15, KwArgs>> >>)

\* def a(): b()   def b(): a()
ExMutualAB == MutualTree(NameA, NameB)
\* def b(): a()   def a(): b()
ExMutualBA == MutualTree(NameB, NameA)

\* def outer():
\*     def inner():
\*         helper()
\* def helper(): pass
ExNested == Tree(<<
    <<"module", 0, <<>> >>,
    <<"function_definition", 1, KwDef>>,
    <<"identifier", 2, NameOuter>>,
    <<"parameters", 2, KwParams>>,
    <<"block", 2, <<>> >>,
    <<"function_definition", 5, KwDef>>,
    <<"identifier", 6, NameInner>>,
    <<"parameters", 6, KwParams>>,
    <<"block", 6, <<>> >>,
    <<"expression_statement", 9, <<>> >>,
    <<"call", 10, <<>> >>,
    <<"identifier", 11, NameHelper>>,
    <<"argument_list", 11, KwArgs>>,
    <<"function_definition", 1, KwDef>>,
    <<"identifier", 14, NameHelper>>,
    <<"parameters", 14, KwParams>>,
    <<"block", 14, <<>> >>,
    <<"pass_statement", 17, <<"p", "a", "s", "s">> >> >>)

\* def f(): g(); g()
\* def g(): pass
ExDuplicateCalls == Tree(<<
    <<"module", 0, <<>> >>,
    <<"function_definition", 1, KwDef>>,
    <<"identifier", 2, NameF>>,
    <<"parameters", 2, KwParams>>,
    <<"block", 2, <<>> >>,
    <<"expression_statement", 5, <<>> >>,
    <<"call", 6, <<>> >>,
    <<"identifier", 7, NameG>>,
    <<"argument_list", 7, KwArgs>>,
    <<"expression_statement", 5, <<";">> >>,
    <<"call", 10, <<>> >>,
    <<"identifier", 11, NameG>>,
    <<"argument_list", 11, KwArgs>>,
    <<"function_definition", 1, KwDef>>,
    <<"identifier", 14, NameG>>,
    <<"parameters", 14, KwParams>>,
    <<"block", 14, <<>> >>,
    <<"pass_statement", 17, <<"p", "a", "s", "s">> >> >>)

\* def f(): f()
\* def g(           (unterminated: the parser reports an ERROR node)
ExUnterminated == Tree(<<
    <<"module", 0, <<>> >>,
    <<"function_definition", 1, KwDef>>,
    <<"identifier", 2, NameF>>,
    <<"parameters", 2, KwParams>>,
    <<"block", 2, <<>> >>,
    <<"expression_statement", 5, <<>> >>,
    <<"call", 6, <<>> >>,
    <<"identifier", 7, NameF>>,
    <<"argument_list", 7, KwArgs>>,
    <<"ERROR", 1, KwDef>>,
    <<"identifier", 10, NameG>>,
    <<"(", 10, <<"(">> >> >>)

\* A definition whose name is not exposed as an identifier child; it holds
\* a call of a and a nested definition of a:
\*     def (): a(); def a(): pass
ExUnnamedDef == Tree(<<
    <<"module", 0, <<>> >>,
    <<"function_definition", 1, KwDef>>,
    <<"parameters", 2, KwParams>>,
    <<"block", 2, <<>> >>,
    <<"expression_statement", 4, <<>> >>,
    <<"call", 5, <<>> >>,
    <<"identifier", 6, NameA>>,
    <<"argument_list", 6, KwArgs>>,
    <<"function_definition", 4, KwDef>>,
    <<"identifier", 9, NameA>>,
    <<"parameters", 9, KwParams>>,
    <<"block", 9, <<>> >>,
    <<"pass_statement", 12, <<"p", "a", "s", "s">> >> >>)

\* class a:
\*     def f(): g()
\* def g():
\*     def b(): g()
ExClassMethod == Tree(<<
    <<"module", 0, <<>> >>,
    <<"class_definition", 1, KwClass>>,
    <<"identifier", 2, NameA>>,
    <<"block", 2, <<":">> >>,
    <<"function_definition", 4, KwDef>>,
    <<"identifier", 5, NameF>>,
    <<"parameters", 5, KwParams>>,
    <<"block", 5, <<>> >>,
    <<"expression_statement", 8, <<>> >>,
    <<"call", 9, <<>> >>,
    <<"identifier", 10, NameG>>,
    <<"argument_list", 10, KwArgs>>,
    <<"function_definition", 1, KwDef>>,
    <<"identifier", 13, NameG>>,
    <<"parameters", 13, KwParams>>,
    <<"block", 13, <<>> >>,
    <<"function_definition", 16, KwDef>>,
    <<"identifier", 17, NameB>>,
    <<"parameters", 17, KwParams>>,
    <<"block", 17, <<>> >>,
    <<"expression_statement", 20, <<>> >>,
    <<"call", 21, <<>> >>,
    <<"identifier", 22, NameG>>,
    <<"argument_list", 22, KwArgs>> >>)

\* def f():
\*     if g: a()
\*     b()
\* def a(): pass
\* def b(): pass
ExDepthOrder == Tree(<<
    <<"module", 0, <<>> >>,
    <<"function_definition", 1, KwDef>>,
    <<"identifier", 2, NameF>>,
    <<"parameters", 2, KwParams>>,
    <<"block", 2, <<>> >>,
    <<"if_statement", 5, <<"i", "f", " ">> >>,
    <<"identifier", 6, NameG>>,
    <<"block", 6, <<":">> >>,
    <<"expression_statement", 8, <<>> >>,
    <<"call", 9, <<>> >>,
    <<"identifier", 10, NameA>>,
    <<"argument_list", 10, KwArgs>>,
    <<"expression_statement", 5, <<>> >>,
    <<"call", 13, <<>> >>,
    <<"identifier", 14, NameB>>,
    <<"argument_list", 14, KwArgs>>,
    <<"function_definition", 1, KwDef>>,
    <<"identifier", 17, NameA>>,
    <<"parameters", 17, KwParams>>,
    <<"block", 17, <<>> >>,
    <<"pass_statement", 20, <<"p", "a", "s", "s">> >>,
    <<"function_definition", 1, KwDef>>,
    <<"identifier", 22, NameB>>,
    <<"parameters", 22, KwParams>>,
    <<"block", 22, <<>> >>,
    <<"pass_statement", 25, <<"p", "a", "s", "s">> >> >>)

\* def f(): a.b(g())
\* def g(): pass
ExMethodCall == Tree(<<
    <<"module", 0, <<>> >>,
    <<"function_definition", 1, KwDef>>,
    <<"identifier", 2, NameF>>,
    <<"parameters", 2, KwParams>>,
    <<"block", 2, <<>> >>,
    <<"expression_statement", 5, <<>> >>,
    <<"call", 6, <<>> >>,
    <<"attribute", 7, <<>> >>,
    <<"identifier", 8, NameA>>,
    <<".", 8, <<".">> >>,
    <<"identifier", 8, NameB>>,
    <<"argument_list", 7, <<"(">> >>,
    <<"call", 12, <<>> >>,
    <<"identifier", 13, NameG>>,
    <<"argument_list", 13, KwArgs>>,
    <<")", 12, <<")">> >>,
    <<"function_definition", 1, KwDef>>,
    <<"identifier", 17, NameG>>,
    <<"parameters", 17, KwParams>>,
    <<"block", 17, <<>> >>,
    <<"pass_statement", 20, <<"p", "a", "s", "s">> >> >>)

\* def f(): a()
\* def f(): b()
\* def a(): pass
\* def b(): pass
ExDuplicateNames == Tree(<<
    <<"module", 0, <<>> >>,
    <<"function_definition", 1, KwDef>>,
    <<"identifier", 2, NameF>>,
    <<"parameters", 2, KwParams>>,
    <<"block", 2, <<>> >>,
    <<"expression_statement", 5, <<>> >>,
    <<"call", 6, <<>> >>,
    <<"identifier", 7, NameA>>,
    <<"argument_list", 7, KwArgs>>,
    <<"function_definition", 1, KwDef>>,
    <<"identifier", 10, NameF>>,
    <<"parameters", 10, KwParams>>,
    <<"block", 10, <<>> >>,
    <<"expression_statement", 13, <<>> >>,
    <<"call", 14, <<>> >>,
    <<"identifier", 15, NameB>>,
    <<"argument_list", 15, KwArgs>>,
    <<"function_definition", 1, KwDef>>,
    <<"identifier", 18, NameA>>,
    <<"parameters", 18, KwParams>>,
    <<"block", 18, <<>> >>,
    <<"pass_statement", 21, <<"p", "a", "s", "s">> >>,
    <<"function_definition", 1, KwDef>>,
    <<"identifier", 23, NameB>>,
    <<"parameters", 23, KwParams>>,
    <<"block", 23, <<>> >>,
    <<"pass_statement", 26, <<"p", "a", "s", "s">> >> >>)

\* g()
\* class a:
\*     g()
\* @g()
\* def f(): pass
\* def g(): pass
ExOutsideCalls == Tree(<<
    <<"module", 0, <<>> >>,
    <<"expression_statement", 1, <<>> >>,
    <<"call", 2, <<>> >>,
    <<"identifier", 3, NameG>>,
    <<"argument_list", 3, KwArgs>>,
    <<"class_definition", 1, KwClass>>,
    <<"identifier", 6, NameA>>,
    <<"block", 6, <<":">> >>,
    <<"expression_statement", 8, <<>> >>,
    <<"call", 9, <<>> >>,
    <<"identifier", 10, NameG>>,
    <<"argument_list", 10, KwArgs>>,
    <<"decorated_definition", 1, <<>> >>,
    <<"decorator", 13, <<"@">> >>,
    <<"call", 14, <<>> >>,
    <<"identifier", 15, NameG>>,
    <<"argument_list", 15, KwArgs>>,
    <<"function_definition", 13, KwDef>>,
    <<"identifier", 18, NameF>>,
    <<"parameters", 18, KwParams>>,
    <<"block", 18, <<>> >>,
    <<"pass_statement", 21, <<"p", "a", "s", "s">> >>,
    <<"function_definition", 1, KwDef>>,
    <<"identifier", 23, NameG>>,
    <<"parameters", 23, KwParams>>,
    <<"block", 23, <<>> >>,
    <<"pass_statement", 26, <<"p", "a", "s", "s">> >> >>)

\* def outer():
\*     def inner(): pass
\*     inner()
ExCallsNested == Tree(<<
    <<"module", 0, <<>> >>,
    <<"function_definition", 1, KwDef>>,
    <<"identifier", 2, NameOuter>>,
    <<"parameters", 2, KwParams>>,
    <<"block", 2, <<>> >>,
    <<"function_definition", 5, KwDef>>,
    <<"identifier", 6, NameInner>>,
    <<"parameters", 6, KwParams>>,
    <<"block", 6, <<>> >>,
    <<"pass_statement", 9, <<"p", "a", "s", "s">> >>,
    <<"expression_statement", 5, <<>> >>,
    <<"call", 11, <<>> >>,
    <<"identifier", 12, NameInner>>,
    <<"argument_list", 12, KwArgs>> >>)

ExampleTrees ==
    { ExExternalCall, ExSelfRecursion, ExMutualAB, ExMutualBA, ExNested,
      ExDuplicateCalls, ExUnterminated, ExUnnamedDef, ExClassMethod,
      ExDepthOrder, ExMethodCall, ExDuplicateNames,
      ExOutsideCalls, ExCallsNested }

\* The syntax trees the parser can return for the modelled source texts.
Trees == GenTrees \cup ExampleTrees

\* -------------------------------------------------------------- requests
\* Request slots.  Every variable below is a function of the request: the
\* locals of one call belong to that call alone.
Reqs == {1, 2}

\* The language tags clients send.
Languages == {"python", "javascript", "Python"}

None == 0
NoTree == [kind |-> <<>>, parent |-> <<>>, text |-> <<>>]
NoResponse == [status |-> 0]
\* No earlier run of the request has returned a call graph.
NoGraph == [absent |-> TRUE]

\* A Python dict with insertion-ordered keys.
EmptyDict == [keys |-> <<>>, vals |-> [k \in {} |-> <<>>]]

\* d[k] = v: a new key goes last, an existing key keeps its place.
DictSet(d, k, v) ==
    IF k \in DOMAIN d.vals
    THEN [d EXCEPT !.vals[k] = v]
    ELSE [keys |-> Append(d.keys, k), vals |-> d.vals @@ (k :> v)]

\* The HTTPException responses of the endpoint.
UnsupportedLanguage == [status |-> 400, detail |-> "Only 'python' is supported."]
ParserLoadFailure == [status |-> 500, detail |-> "Could not load parser"]
SyntaxError == [status |-> 400, detail |-> "Code parsing failed."]
InternalError == [status |-> 500, detail |-> "KeyError"]

\* The names and mappings the complexity tool can report.
\* The local `complexity` before line 106 binds it.
NoComplexity == [k \in {} |-> 0]
CxNames == {NameF, <<"z">>}
CxMaps == UNION {[S -> 1..MaxScore] : S \in SUBSET CxNames}
\* What ComplexityVisitor.from_code does: it raises, or it yields a mapping.
CxOutcomes ==
    {[raised |-> TRUE, map |-> [k \in {} |-> 0]]}
        \cup {[raised |-> FALSE, map |-> m] : m \in CxMaps}

VARIABLES
    pc,                    \* the request's position in parse_code_and_analyze
    payload,               \* payload.language, payload.code
    syntax,                \* the tree the parser yields for payload.code
    tree,                  \* tree.root_node's arena once parsed
    q,                     \* build_call_graph: the queue of both outer loops
    body_q,                \* build_call_graph: the queue of the secondary walk
    current,               \* build_call_graph: the node popped from q
    current_function_name, \* build_call_graph: name of the enclosing function
    defined_functions,     \* build_call_graph: the Function Catalog
    call_graph,            \* build_call_graph: the Call Graph
    response,              \* what the endpoint returned or raised
    trace,                 \* the calls the request has made, in order
    popped,                \* every dequeue of build_call_graph, in order
    appended,              \* every append of line 69, in order
    complexity,            \* parse_code_and_analyze: the mapping of line 106
    runs,                  \* how many times the request has been issued
    previous               \* the call graph the previous run returned

vars == <<pc, payload, syntax, tree, q, body_q, current, current_function_name,
          defined_functions, call_graph, response, trace, popped, appended,
          complexity, runs, previous>>

locals == <<q, body_q, current, current_function_name, defined_functions,
            call_graph>>
inputs == <<payload, syntax, runs, previous>>

\* ---------------------------------------------------------------- helpers
RECURSIVE FirstOfType(_, _, _)
FirstOfType(t, cs, node_type) ==
    IF cs = <<>> THEN None
    ELSE IF t.kind[Head(cs)] = node_type THEN Head(cs)
    ELSE FirstOfType(t, Tail(cs), node_type)

\* find_child_node_by_type: the first child of that type, or None.
find_child_node_by_type(t, node, node_type) ==
    FirstOfType(t, children(t, node), node_type)

\* get_node_text: code[node.start_byte:node.end_byte], a str slice.
get_node_text(t, node, code) == Slice(code, start_byte(t, node), end_byte(t, node))

\* A language check that ignores case.
SupportedLanguageAnyCase(l) == l \in {"python", "Python"}

\* Line 91: the single supported language.
SupportedLanguage(l) == l = "python"

\* A catalog pass that, like the resolution pass, does not look inside
\* function definitions.
Pass1ChildrenOpaque(t, cur) ==
    IF t.kind[cur] = "function_definition" THEN <<>> ELSE children(t, cur)

\* A catalog pass that looks at the statements of the module only.
Pass1ChildrenTopLevel(t, cur) == IF cur = 1 THEN children(t, cur) ELSE <<>>

\* Line 49: the catalog pass enqueues the children of every node.
Pass1Children(t, cur) == children(t, cur)

\* An append without the catalog test of line 68.
AppendCalleeUnfiltered(cg, caller, callee, defined) ==
    [cg EXCEPT !.vals[caller] = Append(@, callee)]

\* An append that drops a callee already listed.
AppendCalleeOnce(cg, caller, callee, defined) ==
    IF callee \in defined /\ \A i \in 1..Len(cg.vals[caller]) : cg.vals[caller][i] # callee
    THEN [cg EXCEPT !.vals[caller] = Append(@, callee)]
    ELSE cg

\* An append that drops a call of the function to itself.
AppendCalleeNoSelf(cg, caller, callee, defined) ==
    IF callee \in defined /\ callee # caller
    THEN [cg EXCEPT !.vals[caller] = Append(@, callee)]
    ELSE cg

\* Lines 68-69: record the callee when its name is a catalog member.
AppendCallee(cg, caller, callee, defined) ==
    IF callee \in defined
    THEN [cg EXCEPT !.vals[caller] = Append(@, callee)]
    ELSE cg

\* A secondary walk that also descends into nested function definitions.
ExpandAll(t, body_node) == children(t, body_node)

\* A walk that drops a call it cannot name together with everything below it.
ExpandNamedOnly(t, body_node) ==
    IF \/ t.kind[body_node] = "function_definition"
       \/ /\ t.kind[body_node] = "call"
          /\ find_child_node_by_type(t, body_node, "identifier") = None
    THEN <<>> ELSE children(t, body_node)

\* Lines 70-71: what the secondary walk enqueues after body_node.
Expand(t, body_node) ==
    IF t.kind[body_node] # "function_definition" THEN children(t, body_node)
    ELSE <<>>

\* ------------------------------------------------------------------- Init
Idle(r) == r # 1

Init ==
    /\ \E l \in Languages, t \in Trees :
         /\ payload = [r \in Reqs |-> IF Idle(r) THEN [language |-> "", code |-> <<>>]
                                      ELSE [language |-> l, code |-> CodeOf(t)]]
         /\ syntax = [r \in Reqs |-> IF Idle(r) THEN NoTree ELSE t]
    /\ pc = [r \in Reqs |-> IF Idle(r) THEN "idle" ELSE "start"]
    /\ tree = [r \in Reqs |-> NoTree]
    /\ q = [r \in Reqs |-> <<>>]
    /\ body_q = [r \in Reqs |-> <<>>]
    /\ current = [r \in Reqs |-> None]
    /\ current_function_name = [r \in Reqs |-> <<>>]
    /\ defined_functions = [r \in Reqs |-> {}]
    /\ call_graph = [r \in Reqs |-> EmptyDict]
    /\ response = [r \in Reqs |-> NoResponse]
    /\ trace = [r \in Reqs |-> <<>>]
    /\ popped = [r \in Reqs |-> <<>>]
    /\ appended = [r \in Reqs |-> <<>>]
    /\ complexity = [r \in Reqs |-> NoComplexity]
    /\ runs = [r \in Reqs |-> IF Idle(r) THEN 0 ELSE 1]
    /\ previous = [r \in Reqs |-> NoGraph]

\* ------------------------------------------------ parse_code_and_analyze
\* Lines 91-92: the language check.
CheckLanguage(r) ==
    /\ pc[r] = "start"
    /\ IF SupportedLanguage(payload[r].language)
       THEN /\ pc' = [pc EXCEPT ![r] = "get_parser"]
            /\ UNCHANGED response
       ELSE /\ pc' = [pc EXCEPT ![r] = "done"]
            /\ response' = [response EXCEPT ![r] = UnsupportedLanguage]
    /\ UNCHANGED <<inputs, complexity, locals, tree, trace, popped, appended>>

\* Lines 94-97: get_parser returns a parser or raises.
GetParser(r) ==
    /\ pc[r] = "get_parser"
    /\ trace' = [trace EXCEPT ![r] = Append(@, "get_parser")]
    /\ \E loaded \in BOOLEAN :
         IF loaded
         THEN /\ pc' = [pc EXCEPT ![r] = "parse"]
              /\ UNCHANGED response
         ELSE /\ pc' = [pc EXCEPT ![r] = "done"]
              /\ response' = [response EXCEPT ![r] = ParserLoadFailure]
    /\ UNCHANGED <<inputs, complexity, locals, tree, popped, appended>>

\* Lines 99-100: parser.parse(bytes(payload.code, "utf8")).
Parse(r) ==
    /\ pc[r] = "parse"
    /\ trace' = [trace EXCEPT ![r] = Append(@, "parse")]
    /\ tree' = [tree EXCEPT ![r] = syntax[r]]
    /\ pc' = [pc EXCEPT ![r] = "has_error"]
    /\ UNCHANGED <<inputs, complexity, locals, response, popped, appended>>

\* An endpoint that never looks at root_node.has_error.
CheckErrorSkipped(r) ==
    /\ pc[r] = "has_error"
    /\ pc' = [pc EXCEPT ![r] = "build_call_graph"]
    /\ UNCHANGED <<inputs, complexity, locals, tree, response, trace, popped, appended>>

\* Lines 102-103: trees with syntax errors are rejected.
CheckError(r) ==
    /\ pc[r] = "has_error"
    /\ IF has_error(tree[r])
       THEN /\ pc' = [pc EXCEPT ![r] = "done"]
            /\ response' = [response EXCEPT ![r] = SyntaxError]
       ELSE /\ pc' = [pc EXCEPT ![r] = "build_call_graph"]
            /\ UNCHANGED response
    /\ UNCHANGED <<inputs, complexity, locals, tree, trace, popped, appended>>

\* ------------------------------------------------------ build_call_graph
\* A build_call_graph whose call_graph and defined_functions are module-level
\* globals, shared by all requests, instead of locals.
BcgEntryShared(r) ==
    /\ pc[r] = "build_call_graph"
    /\ trace' = [trace EXCEPT ![r] = Append(@, "build_call_graph")]
    /\ call_graph' = [r2 \in Reqs |-> EmptyDict]
    /\ defined_functions' = [r2 \in Reqs |-> {}]
    /\ IF tree[r].kind[1] # "module"
       THEN /\ pc' = [pc EXCEPT ![r] = "complexity"]
            /\ UNCHANGED q
       ELSE /\ pc' = [pc EXCEPT ![r] = "pass1"]
            /\ q' = [q EXCEPT ![r] = <<1>>]
    /\ UNCHANGED <<inputs, complexity, tree, body_q, current, current_function_name,
                   response, popped, appended>>

\* A builder without the root check of lines 36-37.
BcgEntryAnyRoot(r) ==
    /\ pc[r] = "build_call_graph"
    /\ trace' = [trace EXCEPT ![r] = Append(@, "build_call_graph")]
    /\ call_graph' = [call_graph EXCEPT ![r] = EmptyDict]
    /\ defined_functions' = [defined_functions EXCEPT ![r] = {}]
    /\ pc' = [pc EXCEPT ![r] = "pass1"]
    /\ q' = [q EXCEPT ![r] = <<1>>]
    /\ UNCHANGED <<inputs, complexity, tree, body_q, current, current_function_name,
                   response, popped, appended>>

\* Lines 33-40: fresh locals; a root that is no module returns {} at once.
BcgEntry(r) ==
    /\ pc[r] = "build_call_graph"
    /\ trace' = [trace EXCEPT ![r] = Append(@, "build_call_graph")]
    /\ call_graph' = [call_graph EXCEPT ![r] = EmptyDict]
    /\ defined_functions' = [defined_functions EXCEPT ![r] = {}]
    /\ IF tree[r].kind[1] # "module"
       THEN /\ pc' = [pc EXCEPT ![r] = "complexity"]
            /\ UNCHANGED q
       ELSE /\ pc' = [pc EXCEPT ![r] = "pass1"]
            /\ q' = [q EXCEPT ![r] = <<1>>]
    /\ UNCHANGED <<inputs, complexity, tree, body_q, current, current_function_name,
                   response, popped, appended>>

\* Lines 41-49: one iteration of the catalog pass.
\* (t, the popped node and its identifier child are bound once per iteration.)
Pass1Step(r) ==
    /\ pc[r] = "pass1"
    /\ q[r] # <<>>
    /\ \E t \in {tree[r]}, cur \in {Head(q[r])} :
       \E name_node \in {find_child_node_by_type(t, cur, "identifier")} :
       LET function_name == get_node_text(t, name_node, payload[r].code)
       IN /\ current' = [current EXCEPT ![r] = cur]
          /\ popped' = [popped EXCEPT ![r] = Append(@, [loop |-> "pass1", node |-> cur])]
          /\ IF t.kind[cur] = "function_definition" /\ name_node # None
             THEN /\ defined_functions' =
                        [defined_functions EXCEPT ![r] = @ \cup {function_name}]
                  /\ call_graph' =
                        [call_graph EXCEPT ![r] = DictSet(@, function_name, <<>>)]
             ELSE UNCHANGED <<defined_functions, call_graph>>
          /\ q' = [q EXCEPT ![r] = Tail(@) \o Pass1Children(t, cur)]
    /\ UNCHANGED <<inputs, complexity, tree, pc, body_q, current_function_name, response,
                   trace, appended>>

\* The orders in which the elements of set S can be listed.
KeyOrders(S) ==
    {ks \in [1..Cardinality(S) -> S] :
        \A i, j \in 1..Cardinality(S) : i # j => ks[i] # ks[j]}

\* A catalog pass that lays out the keys of call_graph by iterating over the
\* set defined_functions, whose iteration order is not fixed.
Pass1DoneSetOrder(r) ==
    /\ pc[r] = "pass1"
    /\ q[r] = <<>>
    /\ q' = [q EXCEPT ![r] = <<1>>]
    /\ pc' = [pc EXCEPT ![r] = "pass2"]
    /\ \E ks \in KeyOrders(defined_functions[r]) :
         call_graph' = [call_graph EXCEPT ![r].keys = ks]
    /\ UNCHANGED <<inputs, complexity, tree, body_q, current, current_function_name,
                   defined_functions, response, trace, popped, appended>>

\* Lines 41, 52: the catalog pass ends on an empty queue; pass 2 starts at the root.
Pass1Done(r) ==
    /\ pc[r] = "pass1"
    /\ q[r] = <<>>
    /\ q' = [q EXCEPT ![r] = <<1>>]
    /\ pc' = [pc EXCEPT ![r] = "pass2"]
    /\ UNCHANGED <<inputs, complexity, tree, body_q, current, current_function_name,
                   defined_functions, call_graph, response, trace, popped, appended>>

\* A resolution pass that walks into a definition it cannot name.
OuterChildrenUnnamed(t, cur) ==
    IF /\ t.kind[cur] = "function_definition"
       /\ find_child_node_by_type(t, cur, "identifier") # None
    THEN <<>> ELSE children(t, cur)

\* A resolution pass that enqueues the children of every node, as pass 1 does.
OuterChildrenAll(t, cur) == children(t, cur)

\* Lines 55 and 72-73: what the outer loop of the resolution pass enqueues
\* after popping cur: nothing for a function definition (named or not), the
\* children of any other node.
OuterChildren(t, cur) ==
    IF t.kind[cur] = "function_definition" THEN <<>> ELSE children(t, cur)

\* A resolution pass that starts each definition from an empty sequence, so
\* that the last definition of a name wins.
Pass2StepResets(r) ==
    /\ pc[r] = "pass2"
    /\ q[r] # <<>>
    /\ LET t == tree[r]
           cur == Head(q[r])
           current_func_name_node == find_child_node_by_type(t, cur, "identifier")
       IN /\ current' = [current EXCEPT ![r] = cur]
          /\ popped' = [popped EXCEPT ![r] = Append(@, [loop |-> "pass2", node |-> cur])]
          /\ call_graph' =
               [call_graph EXCEPT ![r] =
                  IF /\ t.kind[cur] = "function_definition"
                     /\ current_func_name_node # None
                  THEN DictSet(@, get_node_text(t, current_func_name_node,
                                                payload[r].code), <<>>)
                  ELSE @]
          /\ IF t.kind[cur] = "function_definition"
             THEN /\ q' = [q EXCEPT ![r] = Tail(@) \o OuterChildren(t, cur)]
                  /\ IF current_func_name_node = None
                     THEN UNCHANGED <<pc, body_q, current_function_name>>
                     ELSE /\ current_function_name' =
                               [current_function_name EXCEPT ![r] =
                                  get_node_text(t, current_func_name_node, payload[r].code)]
                          /\ body_q' = [body_q EXCEPT ![r] = children(t, cur)]
                          /\ pc' = [pc EXCEPT ![r] = "body"]
             ELSE /\ q' = [q EXCEPT ![r] = Tail(@) \o OuterChildren(t, cur)]
                  /\ UNCHANGED <<pc, body_q, current_function_name>>
    /\ UNCHANGED <<inputs, complexity, tree, defined_functions, response, trace,
                   appended>>

\* A resolution pass that also records the calls its outer loop meets, under
\* the name of the function it processed last.
Pass2StepFlat(r) ==
    /\ pc[r] = "pass2"
    /\ q[r] # <<>>
    /\ LET t == tree[r]
           cur == Head(q[r])
           current_func_name_node == find_child_node_by_type(t, cur, "identifier")
       IN /\ current' = [current EXCEPT ![r] = cur]
          /\ popped' = [popped EXCEPT ![r] = Append(@, [loop |-> "pass2", node |-> cur])]
          /\ LET call_name_node == find_child_node_by_type(t, cur, "identifier")
                 called == get_node_text(t, call_name_node, payload[r].code)
                 records == /\ t.kind[cur] = "call"
                            /\ call_name_node # None
                            /\ called \in defined_functions[r]
                            /\ current_function_name[r] \in DOMAIN call_graph[r].vals
             IN /\ call_graph' =
                     [call_graph EXCEPT ![r] =
                        IF records
                        THEN [@ EXCEPT !.vals[current_function_name[r]] =
                                         Append(@, called)]
                        ELSE @]
                /\ appended' =
                     [appended EXCEPT ![r] =
                        IF records
                        THEN Append(@, [def |-> current[r], call |-> cur,
                                        name |-> called])
                        ELSE @]
          /\ IF t.kind[cur] = "function_definition"
             THEN /\ q' = [q EXCEPT ![r] = Tail(@) \o OuterChildren(t, cur)]
                  /\ IF current_func_name_node = None
                     THEN UNCHANGED <<pc, body_q, current_function_name>>
                     ELSE /\ current_function_name' =
                               [current_function_name EXCEPT ![r] =
                                  get_node_text(t, current_func_name_node, payload[r].code)]
                          /\ body_q' = [body_q EXCEPT ![r] = children(t, cur)]
                          /\ pc' = [pc EXCEPT ![r] = "body"]
             ELSE /\ q' = [q EXCEPT ![r] = Tail(@) \o OuterChildren(t, cur)]
                  /\ UNCHANGED <<pc, body_q, current_function_name>>
    /\ UNCHANGED <<inputs, complexity, tree, defined_functions, response, trace>>

\* Lines 53-61, 72-73: one iteration of the outer loop of the resolution pass.
\* (t, the popped node and its identifier child are bound once per iteration.)
Pass2Step(r) ==
    /\ pc[r] = "pass2"
    /\ q[r] # <<>>
    /\ \E t \in {tree[r]}, cur \in {Head(q[r])} :
       \E current_func_name_node \in {find_child_node_by_type(t, cur, "identifier")} :
          /\ current' = [current EXCEPT ![r] = cur]
          /\ popped' = [popped EXCEPT ![r] = Append(@, [loop |-> "pass2", node |-> cur])]
          /\ IF t.kind[cur] = "function_definition"
             THEN /\ q' = [q EXCEPT ![r] = Tail(@) \o OuterChildren(t, cur)]
                  /\ IF current_func_name_node = None
                     THEN UNCHANGED <<pc, body_q, current_function_name>>
                     ELSE /\ current_function_name' =
                               [current_function_name EXCEPT ![r] =
                                  get_node_text(t, current_func_name_node, payload[r].code)]
                          /\ body_q' = [body_q EXCEPT ![r] = children(t, cur)]
                          /\ pc' = [pc EXCEPT ![r] = "body"]
             ELSE /\ q' = [q EXCEPT ![r] = Tail(@) \o OuterChildren(t, cur)]
                  /\ UNCHANGED <<pc, body_q, current_function_name>>
    /\ UNCHANGED <<inputs, complexity, tree, defined_functions, call_graph, response, trace,
                   appended>>

\* A walk that puts the new nodes in front of the waiting ones: depth-first,
\* which visits call sites in source order.
BodyExtendFront(rest, items) == items \o rest

\* Line 71: body_q.extend(...) puts the new nodes behind the waiting ones.
BodyExtend(rest, items) == rest \o items

\* Lines 62-71: one iteration of the secondary walk.  Appending to a key that
\* call_graph lacks raises KeyError, which the endpoint does not catch.
\* (t, the popped node and its identifier child are bound once per iteration.)
BodyStep(r) ==
    /\ pc[r] = "body"
    /\ body_q[r] # <<>>
    /\ \E t \in {tree[r]}, body_node \in {Head(body_q[r])} :
       \E call_name_node \in {find_child_node_by_type(t, body_node, "identifier")} :
       LET called_function_name == get_node_text(t, call_name_node, payload[r].code)
           resolves == /\ t.kind[body_node] = "call"
                       /\ call_name_node # None
           cg == IF resolves
                 THEN AppendCallee(call_graph[r], current_function_name[r],
                                   called_function_name, defined_functions[r])
                 ELSE call_graph[r]
       IN /\ popped' = [popped EXCEPT ![r] = Append(@, [loop |-> "body", node |-> body_node])]
          /\ IF resolves /\ called_function_name \in defined_functions[r]
                /\ current_function_name[r] \notin DOMAIN call_graph[r].vals
             THEN /\ response' = [response EXCEPT ![r] = InternalError]
                  /\ pc' = [pc EXCEPT ![r] = "done"]
                  /\ UNCHANGED <<call_graph, appended, body_q>>
             ELSE /\ call_graph' = [call_graph EXCEPT ![r] = cg]
                  /\ appended' =
                       [appended EXCEPT ![r] =
                          IF cg # call_graph[r]
                          THEN Append(@, [def |-> current[r], call |-> body_node,
                                          name |-> called_function_name])
                          ELSE @]
                  /\ body_q' = [body_q EXCEPT ![r] =
                                  BodyExtend(Tail(@), Expand(t, body_node))]
                  /\ UNCHANGED <<pc, response>>
    /\ UNCHANGED <<inputs, complexity, tree, q, current, current_function_name,
                   defined_functions, trace>>

\* Line 62: the secondary walk ends on an empty queue; the outer loop goes on.
BodyDone(r) ==
    /\ pc[r] = "body"
    /\ body_q[r] = <<>>
    /\ pc' = [pc EXCEPT ![r] = "pass2"]
    /\ UNCHANGED <<inputs, complexity, locals, tree, response, trace, popped, appended>>

\* A builder that may return while its outer queue still holds nodes.
Pass2DoneEarly(r) ==
    /\ pc[r] = "pass2"
    /\ pc' = [pc EXCEPT ![r] = "complexity"]
    /\ UNCHANGED <<inputs, complexity, locals, tree, response, trace, popped, appended>>

\* A builder that returns only the functions that call something.
Pass2DonePruned(r) ==
    /\ pc[r] = "pass2"
    /\ q[r] = <<>>
    /\ pc' = [pc EXCEPT ![r] = "complexity"]
    /\ call_graph' =
         [call_graph EXCEPT ![r] =
            LET Calls(k) == @.vals[k] # <<>>
            IN [keys |-> SelectSeq(@.keys, Calls),
                vals |-> [k \in {f \in DOMAIN @.vals : @.vals[f] # <<>>} |-> @.vals[k]]]]
    /\ UNCHANGED <<inputs, complexity, tree, q, body_q, current,
                   current_function_name, defined_functions, response, trace,
                   popped, appended>>

\* Lines 53, 75: the resolution pass ends on an empty queue; return call_graph.
Pass2Done(r) ==
    /\ pc[r] = "pass2"
    /\ q[r] = <<>>
    /\ pc' = [pc EXCEPT ![r] = "complexity"]
    /\ UNCHANGED <<inputs, complexity, locals, tree, response, trace, popped, appended>>

\* ---------------------------------------- calculate_cyclomatic_complexity
\* Lines 77-85: the tool's mapping, or {} when the tool raises.
calculate_cyclomatic_complexity(result) ==
    IF result.raised THEN [k \in {} |-> 0] ELSE result.map

\* A complexity adapter without the try/except of lines 78-85: the tool's
\* error reaches the endpoint and fails the request.
ComplexityPropagates(r) ==
    /\ pc[r] = "complexity"
    /\ \E result \in CxOutcomes :
         /\ trace' = [trace EXCEPT ![r] = Append(@, "calculate_cyclomatic_complexity")]
         /\ response' = [response EXCEPT ![r] =
                           IF result.raised
                           THEN [status |-> 500, detail |-> "Internal Server Error"]
                           ELSE [status |-> 200,
                                 call_graph |-> call_graph[r],
                                 complexity |-> result.map]]
         /\ complexity' = [complexity EXCEPT ![r] =
                             IF result.raised THEN @ ELSE result.map]
    /\ pc' = [pc EXCEPT ![r] = "done"]
    /\ UNCHANGED <<inputs, locals, tree, popped, appended>>

\* An endpoint that keeps only the scores of functions the call graph knows.
ComplexityFiltered(r) ==
    /\ pc[r] = "complexity"
    /\ \E result \in CxOutcomes :
         /\ trace' = [trace EXCEPT ![r] =
                        @ \o (IF result.raised
                              THEN <<"calculate_cyclomatic_complexity",
                                     "Could not calculate complexity">>
                              ELSE <<"calculate_cyclomatic_complexity">>)]
         /\ complexity' = [complexity EXCEPT ![r] =
                             calculate_cyclomatic_complexity(result)]
         /\ response' = [response EXCEPT ![r] =
                           [status |-> 200,
                            call_graph |-> call_graph[r],
                            complexity |->
                              [k \in DOMAIN complexity'[r] \cap
                                     {call_graph[r].keys[i] :
                                        i \in DOMAIN call_graph[r].keys} |->
                                 complexity'[r][k]]]]
    /\ pc' = [pc EXCEPT ![r] = "done"]
    /\ UNCHANGED <<inputs, locals, tree, popped, appended>>

\* Lines 106-111: the complexity adapter runs, then the response is built.
Complexity(r) ==
    /\ pc[r] = "complexity"
    /\ \E result \in CxOutcomes :
         /\ trace' = [trace EXCEPT ![r] =
                        @ \o (IF result.raised
                              THEN <<"calculate_cyclomatic_complexity",
                                     "Could not calculate complexity">>
                              ELSE <<"calculate_cyclomatic_complexity">>)]
         /\ complexity' = [complexity EXCEPT ![r] =
                             calculate_cyclomatic_complexity(result)]
         /\ response' = [response EXCEPT ![r] =
                           [status |-> 200,
                            call_graph |-> call_graph[r],
                            complexity |-> complexity'[r]]]
    /\ pc' = [pc EXCEPT ![r] = "done"]
    /\ UNCHANGED <<inputs, locals, tree, popped, appended>>

\* ------------------------------------------------------------ environment
\* The client sends the same payload again: a new call, with new locals.
Repeat(r) ==
    /\ pc[r] = "done"
    /\ runs[r] < MaxRuns
    /\ runs' = [runs EXCEPT ![r] = @ + 1]
    /\ previous' = [previous EXCEPT ![r] =
                      IF response[r].status = 200 THEN response[r].call_graph
                      ELSE previous[r]]
    /\ pc' = [pc EXCEPT ![r] = "start"]
    /\ tree' = [tree EXCEPT ![r] = NoTree]
    /\ q' = [q EXCEPT ![r] = <<>>]
    /\ body_q' = [body_q EXCEPT ![r] = <<>>]
    /\ current' = [current EXCEPT ![r] = None]
    /\ current_function_name' = [current_function_name EXCEPT ![r] = <<>>]
    /\ defined_functions' = [defined_functions EXCEPT ![r] = {}]
    /\ call_graph' = [call_graph EXCEPT ![r] = EmptyDict]
    /\ response' = [response EXCEPT ![r] = NoResponse]
    /\ trace' = [trace EXCEPT ![r] = <<>>]
    /\ popped' = [popped EXCEPT ![r] = <<>>]
    /\ appended' = [appended EXCEPT ![r] = <<>>]
    /\ complexity' = [complexity EXCEPT ![r] = NoComplexity]
    /\ UNCHANGED <<payload, syntax>>

Next ==
    \E r \in Reqs :
        \/ CheckLanguage(r) \/ GetParser(r) \/ Parse(r) \/ CheckError(r)
        \/ BcgEntry(r) \/ Pass1Step(r) \/ Pass1Done(r) \/ Pass2Step(r)
        \/ BodyStep(r) \/ BodyDone(r) \/ Pass2Done(r)
        \/ Complexity(r) \/ Repeat(r)

Spec == Init /\ [][Next]_vars

\* ---------------------------------------------------- property vocabulary
\* The notions the properties below are stated in, defined on the tree
\* alone (by ancestry), not by running the queues.

FunctionDefs(t) == {n \in NodeIds(t) : t.kind[n] = "function_definition"}

\* The function definitions that have an identifier child.
NamedDefs(t) == {d \in FunctionDefs(t) : find_child_node_by_type(t, d, "identifier") # None}

\* The text the code extracts as the name of node n (a definition or a call).
NameAt(t, n) == get_node_text(t, find_child_node_by_type(t, n, "identifier"), CodeOf(t))

\* The Function Catalog of the tree: the names of all named definitions.
Catalog(t) == {NameAt(t, d) : d \in NamedDefs(t)}

\* n lies inside a function definition.
InsideDef(t, n) == \E d \in FunctionDefs(t) : IsAncestor(t, d, n)

\* The definitions the outer loop of the resolution pass processes: the
\* named definitions that lie inside no function definition.
ProcessedDefs(t) == {d \in NamedDefs(t) : ~InsideDef(t, d)}

\* The call nodes below d with no function definition strictly between.
ReachedCalls(t, d) ==
    {n \in NodeIds(t) :
        /\ t.kind[n] = "call"
        /\ IsAncestor(t, d, n)
        /\ \A m \in FunctionDefs(t) : ~(IsAncestor(t, d, m) /\ IsAncestor(t, m, n))}

\* The reached call nodes that have an identifier child.
NamedCalls(t, d) ==
    {n \in ReachedCalls(t, d) : find_child_node_by_type(t, n, "identifier") # None}

Range(s) == {s[i] : i \in 1..Len(s)}

\* Number of occurrences of x in sequence s.
Count(s, x) == Cardinality({i \in 1..Len(s) : s[i] = x})

\* The request has returned a result.
Returned(r) == pc[r] = "done" /\ response[r].status = 200

Active == {r \in Reqs : pc[r] # "idle"}

\* ----------------------------------------------------------------- claims
\* C1. Catalog superset invariant: in every state, every key of call_graph
\* and every name in any callee sequence is a member of defined_functions,
\* which holds only names of the tree's Function Catalog; the same is true of
\* the returned call graph; and def f(): print(1) yields {"f": []}.
C1_CatalogSuperset ==
    \A r \in Active :
        LET cg == call_graph[r] IN
        /\ DOMAIN cg.vals \subseteq defined_functions[r]
        /\ \A k \in DOMAIN cg.vals : Range(cg.vals[k]) \subseteq defined_functions[r]
        /\ defined_functions[r] \subseteq Catalog(tree[r])
        /\ Returned(r) =>
             /\ DOMAIN response[r].call_graph.vals \subseteq Catalog(tree[r])
             /\ \A k \in DOMAIN response[r].call_graph.vals :
                  Range(response[r].call_graph.vals[k]) \subseteq Catalog(tree[r])
        /\ (Returned(r) /\ tree[r] = ExExternalCall) =>
             response[r].call_graph = [keys |-> <<NameF>>, vals |-> (NameF :> <<>>)]

\* The request for def f(): print(1) has returned, its secondary walk having
\* dequeued the call of print.
C1_Witness ==
    /\ Returned(1)
    /\ tree[1] = ExExternalCall
    /\ [loop |-> "body", node |-> 7] \in Range(popped[1])
    /\ NameAt(tree[1], 7) = NamePrint

\* C2. Forward and mutual recursion: the catalog is complete before the
\* resolution pass resolves any call, so in the returned graph every call
\* that a processed function reaches and whose name some definition of the
\* tree bears, wherever that definition stands, is recorded for the function;
\* a calling b and b calling a give {"a": ["b"], "b": ["a"]} in either order.
C2_ForwardAndMutual ==
    \A r \in Active :
        LET t == tree[r] IN
        /\ pc[r] \in {"pass2", "body"} => defined_functions[r] = Catalog(t)
        /\ Returned(r) =>
             \A d \in ProcessedDefs(t) : \A n \in NamedCalls(t, d) :
                 NameAt(t, n) \in Catalog(t) =>
                     NameAt(t, n) \in Range(response[r].call_graph.vals[NameAt(t, d)])
        /\ (Returned(r) /\ t \in {ExMutualAB, ExMutualBA}) =>
             response[r].call_graph.vals = (NameA :> <<NameB>>) @@ (NameB :> <<NameA>>)

\* The request for def b(): a() / def a(): b() has returned: the first call
\* site names a function defined after it.
C2_Witness ==
    /\ Returned(1)
    /\ tree[1] = ExMutualBA
    /\ response[1].call_graph.keys = <<NameB, NameA>>
    /\ Len(appended[1]) = 2

\* n lies inside a function definition that lies inside another one.
InNestedDef(t, n) ==
    \E d \in FunctionDefs(t) : InsideDef(t, d) /\ IsAncestor(t, d, n)

\* The total length of the callee sequences of call graph cg.
RECURSIVE TotalLen(_, _)
TotalLen(cg, ks) ==
    IF ks = <<>> THEN 0 ELSE Len(cg.vals[Head(ks)]) + TotalLen(cg, Tail(ks))

\* C3. Nested-function opacity: every append is logged, and no logged append
\* comes from a call node inside a function definition nested in another
\* one; for outer containing inner containing a call of helper, the
\* sequences of outer and of inner are empty.
C3_NestedOpacity ==
    \A r \in Active :
        /\ TotalLen(call_graph[r], call_graph[r].keys) = Len(appended[r])
        /\ \A i \in 1..Len(appended[r]) : ~InNestedDef(tree[r], appended[r][i].call)
        /\ (Returned(r) /\ tree[r] = ExNested) =>
             /\ response[r].call_graph.vals[NameOuter] = <<>>
             /\ response[r].call_graph.vals[NameInner] = <<>>

\* The request for the outer/inner/helper source has returned; the call of
\* helper (node 11) lies in inner, which lies in outer, and helper is a
\* catalog member.
C3_Witness ==
    /\ Returned(1)
    /\ tree[1] = ExNested
    /\ InNestedDef(tree[1], 11)
    /\ NameAt(tree[1], 11) \in defined_functions[1]

\* C4. Malformed input rejection: once the parsed tree holds a syntax error
\* the request can only end, with the SyntaxError response; build_call_graph
\* and the complexity adapter are never called and no call graph exists.
C4_SyntaxErrorRejected ==
    \A r \in Active :
        (tree[r] # NoTree /\ \E n \in NodeIds(tree[r]) : tree[r].kind[n] = "ERROR") =>
            /\ pc[r] \in {"has_error", "done"}
            /\ pc[r] = "done" => response[r] = SyntaxError
            /\ "build_call_graph" \notin Range(trace[r])
            /\ "calculate_cyclomatic_complexity" \notin Range(trace[r])
            /\ call_graph[r] = EmptyDict
            /\ popped[r] = <<>>

\* The unterminated source was parsed and the request ended with SyntaxError.
C4_Witness ==
    /\ pc[1] = "done"
    /\ tree[1] = ExUnterminated
    /\ response[1] = SyntaxError

\* C5. Unsupported language rejection: a request whose language tag is not
\* "python" ends with the UnsupportedLanguage response at its first step; the
\* parser is neither loaded nor invoked, and neither build_call_graph nor the
\* complexity adapter runs.
C5_UnsupportedLanguage ==
    \A r \in Active :
        (payload[r].language # "python" /\ pc[r] # "start") =>
            /\ pc[r] = "done"
            /\ response[r] = UnsupportedLanguage
            /\ trace[r] = <<>>
            /\ tree[r] = NoTree
            /\ popped[r] = <<>>

\* A request tagged "Python" has ended with UnsupportedLanguage.
C5_Witness ==
    /\ pc[1] = "done"
    /\ payload[1].language = "Python"
    /\ response[1] = UnsupportedLanguage

\* The complexity tool raised in this run (line 84 printed its message).
ComplexityFailed(r) == "Could not calculate complexity" \in Range(trace[r])

\* C6. Complexity failure is absorbed: the step that runs the complexity
\* adapter always ends the request with a 200 response that carries the call
\* graph build_call_graph returned, whether the tool raised or not; when the
\* tool raised, the complexity mapping of the response is empty.
C6_ComplexityFailureAbsorbed ==
    [][\A r \in Reqs :
         (pc[r] = "complexity" /\ pc'[r] # "complexity") =>
             /\ pc'[r] = "done"
             /\ response'[r].status = 200
             /\ response'[r].call_graph = call_graph[r]
             /\ ComplexityFailed(r)' =>
                  response'[r] = [status |-> 200, call_graph |-> call_graph[r],
                                  complexity |-> [k \in {} |-> 0]]]_vars

\* A request whose complexity tool raised has returned a call graph that
\* holds a recorded call.
C6_Witness ==
    /\ Returned(1)
    /\ ComplexityFailed(1)
    /\ appended[1] # <<>>
    /\ DOMAIN response[1].complexity = {}

ReachedCallCount(t, f, g) ==
    LET defs == {d \in ProcessedDefs(t) : NameAt(t, d) = f}
        calls == {n \in NodeIds(t) :
                     /\ t.kind[n] = "call"
                     /\ find_child_node_by_type(t, n, "identifier") # None
                     /\ NameAt(t, n) = g}
    IN Cardinality({dn \in defs \X calls : dn[2] \in ReachedCalls(t, dn[1])})

\* C8. Duplicate calls are preserved: in the graph build_call_graph returns,
\* for every function f and catalog name g the number of occurrences of g in
\* call_graph[f] is the number of call nodes naming g that the secondary
\* walks of f's processed definitions reach; two calls of g in f give
\* ["g", "g"].
C8_DuplicatesPreserved ==
    \A r \in Active :
        LET t == tree[r] IN
        /\ pc[r] \in {"complexity", "done"} =>
             \A f \in DOMAIN call_graph[r].vals : \A g \in Catalog(t) :
                 Count(call_graph[r].vals[f], g) = ReachedCallCount(t, f, g)
        /\ (Returned(r) /\ t = ExDuplicateCalls) =>
             response[r].call_graph.vals[NameF] = <<NameG, NameG>>

\* The request for def f(): g(); g() has returned with g listed twice.
C8_Witness ==
    /\ Returned(1)
    /\ tree[1] = ExDuplicateCalls
    /\ ReachedCallCount(tree[1], NameF, NameG) = 2
    /\ Len(appended[1]) = 2

\* C9. Self-recursion: a processed function whose secondary walk reaches a
\* call of its own name has its own name in its callee sequence; the tree
\* of def f(): f() yields {"f": ["f"]}.
C9_SelfRecursion ==
    \A r \in Active :
        LET t == tree[r] IN
        /\ Returned(r) =>
             \A d \in ProcessedDefs(t) :
                 (\E n \in NamedCalls(t, d) : NameAt(t, n) = NameAt(t, d)) =>
                     NameAt(t, d) \in Range(response[r].call_graph.vals[NameAt(t, d)])
        /\ (Returned(r) /\ t = ExSelfRecursion) =>
             response[r].call_graph = [keys |-> <<NameF>>, vals |-> (NameF :> <<NameF>>)]

\* The request for def f(): f() has returned, the call of f having been
\* appended to f's own sequence.
C9_Witness ==
    /\ Returned(1)
    /\ tree[1] = ExSelfRecursion
    /\ appended[1] = <<[def |-> 2, call |-> 7, name |-> NameF]>>

\* C10. Determinism: when the same payload is analysed again, the call graph
\* returned is identical to the one the earlier run returned, key order and
\* callee order included.
C10_Determinism ==
    \A r \in Active :
        (Returned(r) /\ previous[r] # NoGraph) => response[r].call_graph = previous[r]

\* The mutual-recursion request has returned a second time, its first run
\* having returned a graph of two keys with one callee each.
C10_Witness ==
    /\ Returned(1)
    /\ runs[1] = 2
    /\ tree[1] = ExMutualBA
    /\ previous[1] # NoGraph
    /\ previous[1].keys = <<NameB, NameA>>
    /\ previous[1].vals[NameB] = <<NameA>>

\* ------------------------------------------------------ traversal order
RECURSIVE Depth(_, _)
\* The number of proper ancestors of n.
Depth(t, n) == IF t.parent[n] = 0 THEN 0 ELSE 1 + Depth(t, t.parent[n])

\* Breadth-first rank: by depth first, by source order within one depth.
BfsKey(t, n) == Depth(t, n) * (Len(t.kind) + 1) + n

RECURSIVE InBfsOrder(_, _)
\* The nodes of set S listed by increasing breadth-first rank.
InBfsOrder(t, S) ==
    IF S = {} THEN <<>>
    ELSE LET m == CHOOSE x \in S : \A y \in S : BfsKey(t, x) <= BfsKey(t, y)
         IN <<m>> \o InBfsOrder(t, S \ {m})

\* The calls of catalog names that the secondary walk of d reaches.
ResolvedCalls(t, d) == {n \in NamedCalls(t, d) : NameAt(t, n) \in Catalog(t)}

RECURSIVE EntriesOf(_, _, _)
EntriesOf(t, d, ns) ==
    IF ns = <<>> THEN <<>>
    ELSE <<[def |-> d, call |-> Head(ns), name |-> NameAt(t, Head(ns))]>>
             \o EntriesOf(t, d, Tail(ns))

RECURSIVE AppendsOf(_, _)
AppendsOf(t, ds) ==
    IF ds = <<>> THEN <<>>
    ELSE EntriesOf(t, Head(ds), InBfsOrder(t, ResolvedCalls(t, Head(ds))))
             \o AppendsOf(t, Tail(ds))

\* Every append the resolution pass is to make, in order: definition by
\* definition in outer breadth-first order, call by call in the breadth-first
\* order of the definition's own walk.
ExpectedAppends(t) == AppendsOf(t, InBfsOrder(t, ProcessedDefs(t)))

RECURSIVE NamesFor(_, _, _)
\* The callee names of the entries of es whose definition is named f.
NamesFor(t, es, f) ==
    IF es = <<>> THEN <<>>
    ELSE (IF NameAt(t, Head(es).def) = f THEN <<Head(es).name>> ELSE <<>>)
             \o NamesFor(t, Tail(es), f)

\* The first definition, in breadth-first order, that bears name f.
FirstDef(t, f) ==
    CHOOSE d \in NamedDefs(t) :
        /\ NameAt(t, d) = f
        /\ \A e \in NamedDefs(t) : NameAt(t, e) = f => BfsKey(t, d) <= BfsKey(t, e)

RECURSIVE NamesOf(_, _)
NamesOf(t, ds) == IF ds = <<>> THEN <<>> ELSE <<NameAt(t, Head(ds))>> \o NamesOf(t, Tail(ds))

\* The call graph of tree t, read off the tree: keys in order of first
\* discovery, each sequence the resolved calls of the definitions so named.
ExpectedGraph(t) ==
    [keys |-> NamesOf(t, InBfsOrder(t, {FirstDef(t, f) : f \in Catalog(t)})),
     vals |-> [f \in Catalog(t) |-> NamesFor(t, ExpectedAppends(t), f)]]

\* ------------------------------------------------- concurrent requests
\* The payloads of the concurrent requests.
ConcTrees == {ExSelfRecursion, ExMutualBA, ExUnterminated}
ConcLanguages == {"python", "javascript"}

\* Two requests are in flight at once, each with its own payload.
InitConc ==
    /\ \E ls \in [Reqs -> ConcLanguages], ts \in [Reqs -> ConcTrees] :
         /\ payload = [r \in Reqs |-> [language |-> ls[r], code |-> CodeOf(ts[r])]]
         /\ syntax = ts
    /\ pc = [r \in Reqs |-> "start"]
    /\ tree = [r \in Reqs |-> NoTree]
    /\ q = [r \in Reqs |-> <<>>]
    /\ body_q = [r \in Reqs |-> <<>>]
    /\ current = [r \in Reqs |-> None]
    /\ current_function_name = [r \in Reqs |-> <<>>]
    /\ defined_functions = [r \in Reqs |-> {}]
    /\ call_graph = [r \in Reqs |-> EmptyDict]
    /\ response = [r \in Reqs |-> NoResponse]
    /\ trace = [r \in Reqs |-> <<>>]
    /\ popped = [r \in Reqs |-> <<>>]
    /\ appended = [r \in Reqs |-> <<>>]
    /\ complexity = [r \in Reqs |-> NoComplexity]
    /\ runs = [r \in Reqs |-> 1]
    /\ previous = [r \in Reqs |-> NoGraph]

\* The steps of the requests interleave in any order.
NextConc ==
    \E r \in Reqs :
        \/ CheckLanguage(r) \/ GetParser(r) \/ Parse(r) \/ CheckError(r)
        \/ BcgEntry(r) \/ Pass1Step(r) \/ Pass1Done(r) \/ Pass2Step(r)
        \/ BodyStep(r) \/ BodyDone(r) \/ Pass2Done(r)
        \/ Complexity(r)

SpecConc == InitConc /\ [][NextConc]_vars

\* Everything that belongs to request r.
StateOf(r) ==
    <<pc[r], payload[r], syntax[r], tree[r], q[r], body_q[r], current[r],
      current_function_name[r], defined_functions[r], call_graph[r],
      response[r], trace[r], popped[r], appended[r], complexity[r], runs[r],
      previous[r]>>

\* resp is a response that a request with payload p, parsed as t, can get
\* when it runs alone.
IsAloneResponse(resp, p, t) ==
    IF p.language # "python" THEN resp = UnsupportedLanguage
    ELSE \/ resp = ParserLoadFailure
         \/ IF \E n \in NodeIds(t) : t.kind[n] = "ERROR" THEN resp = SyntaxError
            ELSE /\ resp.status = 200
                 /\ DOMAIN resp = {"status", "call_graph", "complexity"}
                 /\ resp.complexity \in CxMaps
                 /\ resp.call_graph = ExpectedGraph(t)

\* C11. Request isolation under concurrency: with the steps of two requests
\* interleaved in any order, no step changes anything that belongs to more
\* than one request, and each request ends with a response it can get when
\* it runs alone (for a result: the call graph of its own tree).
C11_RequestIsolation ==
    [][/\ \A r1, r2 \in Reqs :
            r1 # r2 => (StateOf(r1)' = StateOf(r1) \/ StateOf(r2)' = StateOf(r2))
       /\ \A r \in Reqs :
            (pc[r] # "done" /\ pc'[r] = "done") =>
                IsAloneResponse(response'[r], payload[r], syntax[r])]_vars

\* Two requests with different sources are both in the middle of their
\* secondary walks, each having recorded a call.
C11_Witness ==
    /\ pc[1] = "body" /\ pc[2] = "body"
    /\ tree[1] = ExMutualBA /\ tree[2] = ExSelfRecursion
    /\ appended[1] # <<>> /\ appended[2] # <<>>

\* C12. Nested functions are catalog members: once the catalog pass is over,
\* the name of every function definition that has an identifier child, at
\* any depth, is in defined_functions and is a key of call_graph; for outer
\* containing inner, plus helper, the returned graph has exactly the keys
\* outer, inner and helper, though inner (node 6) was never processed as an
\* enclosing function.
C12_NestedInCatalog ==
    \A r \in Active :
        LET t == tree[r] IN
        /\ (pc[r] \in {"pass2", "body"} \/ Returned(r)) =>
             \A d \in NamedDefs(t) :
                 /\ NameAt(t, d) \in defined_functions[r]
                 /\ NameAt(t, d) \in DOMAIN call_graph[r].vals
        /\ (Returned(r) /\ t = ExNested) =>
             /\ DOMAIN response[r].call_graph.vals = {NameOuter, NameInner, NameHelper}
             /\ [loop |-> "pass2", node |-> 6] \notin Range(popped[r])
             /\ \A i \in 1..Len(appended[r]) : appended[r][i].def # 6

\* The outer/inner/helper request has returned with inner, a definition
\* inside a definition, among the keys.
C12_Witness ==
    /\ Returned(1)
    /\ tree[1] = ExNested
    /\ InsideDef(tree[1], 6)
    /\ NameAt(tree[1], 6) = NameInner
    /\ NameInner \in DOMAIN response[1].call_graph.vals

RECURSIVE Encode(_)
\* bytes(code, "utf8"): byte k of character c is <<c, k>>.
Encode(s) ==
    IF s = <<>> THEN <<>>
    ELSE [k \in 1..UTF8Len(Head(s)) |-> <<Head(s), k>>] \o Encode(Tail(s))

RECURSIVE Decode(_)
\* The characters of a byte sequence: one per leading byte.
Decode(bs) ==
    IF bs = <<>> THEN <<>>
    ELSE (IF Head(bs)[2] = 1 THEN <<Head(bs)[1]>> ELSE <<>>) \o Decode(Tail(bs))

\* The source text that node n's byte range covers in the parsed buffer.
SourceText(t, n) ==
    Decode(Slice(Encode(CodeOf(t)), start_byte(t, n), end_byte(t, n)))

\* C13. The name recorded for a function definition, and the name recorded
\* for a call site, is the source text that the identifier node's byte
\* range covers in the buffer that was parsed.
C13_NameIsSourceText ==
    \A r \in Active :
        LET t == tree[r] IN
        /\ (pc[r] \in {"pass2", "body"} \/ Returned(r)) =>
             defined_functions[r] =
                 {SourceText(t, find_child_node_by_type(t, d, "identifier")) :
                      d \in NamedDefs(t)}
        /\ \A i \in 1..Len(appended[r]) :
             appended[r][i].name =
                 SourceText(t, find_child_node_by_type(t, appended[r][i].call, "identifier"))

\* ------------------------------------------------------------------ C14
\* C14: the complexity field of a successful result is the mapping the
\* complexity adapter returned, unchanged, whether or not its names are keys
\* of call_graph; the call_graph field is what build_call_graph returned,
\* which the tree alone determines.
C14_ComplexityMergedAsIs ==
    \A r \in Reqs :
        Returned(r) =>
            /\ response[r].complexity = complexity[r]
            /\ response[r].call_graph = call_graph[r]
            /\ response[r].call_graph = ExpectedGraph(tree[r])

\* A successful result whose complexity mapping scores a name that is not a
\* key of a non-empty call graph.
C14_Witness ==
    /\ Returned(1)
    /\ response[1].call_graph.keys # <<>>
    /\ \E k \in DOMAIN response[1].complexity :
         k \notin Range(response[1].call_graph.keys)

\* ------------------------------------------------------------------ C15
\* The nodes one of the three loops has dequeued so far, in order.
PoppedIn(log, loop) ==
    LET InLoop(e) == e.loop = loop
        sel == SelectSeq(log, InLoop)
    IN [i \in 1..Len(sel) |-> sel[i].node]

\* The catalog pass of request r has just stopped: the resolution pass is
\* entered and has dequeued nothing yet.
Pass1Over(r) == pc[r] = "pass2" /\ PoppedIn(popped[r], "pass2") = <<>>

\* C15: the catalog pass dequeues every node of the tree exactly once, in
\* breadth-first order; while it runs, what it has dequeued or still holds in
\* its queue is the root plus the children of every dequeued node, whatever
\* that node's type; when it stops, the catalog is the set of names of all
\* function definitions that have an identifier child.
C15_CatalogPassVisitsAll ==
    \A r \in Reqs :
        LET t == tree[r]
            seen == PoppedIn(popped[r], "pass1")
            bfs == InBfsOrder(t, NodeIds(t))
        IN /\ pc[r] = "pass1" =>
                /\ Len(seen) + Len(q[r]) <= Len(bfs)
                /\ seen \o q[r] = SubSeq(bfs, 1, Len(seen) + Len(q[r]))
                /\ Range(seen \o q[r]) =
                      {n \in NodeIds(t) : t.parent[n] = 0 \/ t.parent[n] \in Range(seen)}
           /\ Pass1Over(r) =>
                /\ seen = bfs
                /\ \A n \in NodeIds(t) : Count(seen, n) = 1
                /\ defined_functions[r] = Catalog(t)

\* The catalog pass is over for a tree with a named definition inside the
\* subtree of another function definition.
C15_Witness ==
    /\ Pass1Over(1)
    /\ \E d \in NamedDefs(tree[1]) : InsideDef(tree[1], d)
    /\ Len(PoppedIn(popped[1], "pass1")) >= MaxNodes

\* ------------------------------------------------------------------ C16
\* The function definitions with no identifier child.
UnnamedDefs(t) == FunctionDefs(t) \ NamedDefs(t)

\* Request r dequeues node n from the outer queue during the given pass.
Dequeues(r, pass, n) ==
    /\ pc[r] = pass
    /\ q[r] # <<>>
    /\ Head(q[r]) = n
    /\ popped'[r] # popped[r]

\* C16: a function definition with no identifier child is skipped without
\* error.  The catalog pass dequeues it, adds nothing to the catalog or the
\* call graph, and enqueues its children.  The resolution pass dequeues it,
\* starts no secondary walk, enqueues none of its children and appends
\* nothing; no append ever comes from it or from a call in its subtree, and
\* no request ends in an internal error.
C16_UnnamedDefSkipped ==
    [][\A r \in Reqs :
         LET t == tree[r]
         IN /\ response'[r] # InternalError
            /\ \A u \in UnnamedDefs(t) :
                 /\ Dequeues(r, "pass1", u) =>
                      /\ defined_functions'[r] = defined_functions[r]
                      /\ call_graph'[r] = call_graph[r]
                      /\ q'[r] = Tail(q[r]) \o children(t, u)
                      /\ pc'[r] = "pass1"
                 /\ Dequeues(r, "pass2", u) =>
                      /\ q'[r] = Tail(q[r])
                      /\ body_q'[r] = body_q[r]
                      /\ call_graph'[r] = call_graph[r]
                      /\ appended'[r] = appended[r]
                      /\ pc'[r] = "pass2"
                 /\ \A i \in 1..Len(appended'[r]) :
                      /\ appended'[r][i].def # u
                      /\ ~IsAncestor(t, u, appended'[r][i].call)]_vars

\* A result for a tree where the resolution pass dequeued an unnamed
\* definition that holds both a call of a catalog name and a named definition.
C16_Witness ==
    /\ Returned(1)
    /\ \E u \in UnnamedDefs(tree[1]) :
         /\ u \in Range(PoppedIn(popped[1], "pass2"))
         /\ \E c \in NodeIds(tree[1]) :
              /\ tree[1].kind[c] = "call"
              /\ IsAncestor(tree[1], u, c)
              /\ find_child_node_by_type(tree[1], c, "identifier") # None
              /\ NameAt(tree[1], c) \in Catalog(tree[1])
         /\ \E d \in NamedDefs(tree[1]) : IsAncestor(tree[1], u, d)

\* ------------------------------------------------------------------ C17
\* The nodes the outer loop of the resolution pass is to dequeue: those with
\* no function definition among their proper ancestors.
OuterNodes(t) == {n \in NodeIds(t) : ~InsideDef(t, n)}

\* The nodes the secondary walks are to dequeue: those below a processed
\* definition with no other function definition in between.
WalkedNodes(t) ==
    {n \in NodeIds(t) :
        \E d \in ProcessedDefs(t) :
            /\ IsAncestor(t, d, n)
            /\ \A m \in FunctionDefs(t) : ~(IsAncestor(t, d, m) /\ IsAncestor(t, m, n))}

\* The resolution pass of request r is over.
Pass2Over(r) == pc[r] = "complexity" \/ Returned(r)

\* C17: in the resolution pass the outer queue never holds a child of a
\* function definition; a secondary walk is only ever run for a named
\* definition with no function definition among its ancestors; and when the
\* pass is over the outer loop has dequeued exactly the nodes that lie inside
\* no function definition (so every definition nested only in non-function
\* nodes, and no definition nested in a function), and the secondary walks
\* have dequeued exactly the nodes below those named definitions that no
\* nested definition hides.
C17_ProcessedIffNoDefAncestor ==
    \A r \in Reqs :
        LET t == tree[r]
        IN /\ pc[r] \in {"pass2", "body"} =>
                \A i \in 1..Len(q[r]) :
                    \/ t.parent[q[r][i]] = 0
                    \/ t.kind[t.parent[q[r][i]]] # "function_definition"
           /\ pc[r] = "body" =>
                /\ current[r] \in ProcessedDefs(t)
                /\ current_function_name[r] = NameAt(t, current[r])
           /\ pc[r] = "complexity" =>
                /\ PoppedIn(popped[r], "pass2") = InBfsOrder(t, OuterNodes(t))
                /\ Range(PoppedIn(popped[r], "body")) = WalkedNodes(t)
                /\ {appended[r][i].def : i \in 1..Len(appended[r])} \subseteq
                      ProcessedDefs(t)

\* A result for a tree with a definition inside a non-function node, whose
\* call was recorded, and a definition inside a function, holding a call of a
\* catalog name that was not.
C17_Witness ==
    /\ Returned(1)
    /\ \E d \in ProcessedDefs(tree[1]) :
         /\ tree[1].parent[d] # 1
         /\ \E i \in 1..Len(appended[1]) : appended[1][i].def = d
    /\ \E d \in NamedDefs(tree[1]) :
         /\ InsideDef(tree[1], d)
         /\ ResolvedCalls(tree[1], d) # {}

\* ------------------------------------------------------------------ C18
\* C18: the appends are made in traversal order: definition by definition in
\* the order of the outer loop and, within one definition, call by call by
\* increasing depth below it and in child order within one depth; what has
\* been appended so far is always a prefix of that listing, the call nodes
\* appended come in the order the secondary walk dequeued them, and each
\* sequence of the result lists the names so appended for its function.
C18_TraversalOrder ==
    \A r \in Reqs :
        LET t == tree[r]
            n == Len(appended[r])
            walk == PoppedIn(popped[r], "body")
        IN /\ pc[r] \in {"pass2", "body"} \/ Pass2Over(r) =>
                /\ n <= Len(ExpectedAppends(t))
                /\ appended[r] = SubSeq(ExpectedAppends(t), 1, n)
                /\ \A i, j \in 1..n :
                     i < j =>
                       \E k, l \in 1..Len(walk) :
                         /\ k < l
                         /\ walk[k] = appended[r][i].call
                         /\ walk[l] = appended[r][j].call
           /\ Pass2Over(r) =>
                /\ appended[r] = ExpectedAppends(t)
                /\ \A f \in DOMAIN call_graph[r].vals :
                     call_graph[r].vals[f] = NamesFor(t, appended[r], f)

\* A result where, within one definition, a call that comes later in the
\* source was appended before an earlier, deeper one.
C18_Witness ==
    /\ Returned(1)
    /\ \E i, j \in 1..Len(appended[1]) :
         /\ i < j
         /\ appended[1][i].def = appended[1][j].def
         /\ appended[1][i].call > appended[1][j].call
         /\ Depth(tree[1], appended[1][i].call) < Depth(tree[1], appended[1][j].call)
         /\ response[1].call_graph.vals[NameAt(tree[1], appended[1][i].def)] =
               <<appended[1][i].name, appended[1][j].name>>

\* ------------------------------------------------------------------ C19
\* The call nodes the walk of d reaches that have no identifier child.
UnnamedCalls(t, d) == ReachedCalls(t, d) \ NamedCalls(t, d)

\* C19: when the secondary walk dequeues a call node with no identifier
\* child it appends nothing, raises nothing and enqueues that node's
\* children; when the resolution pass is over no append has come from such a
\* node, and every call of a catalog name that the walk reaches below one,
\* in its callee expression or its arguments, has been recorded for the
\* enclosing function.
C19_UnnamedCallExpanded ==
    [][\A r \in Reqs :
         LET t == tree[r]
         IN /\ \A c \in UnnamedCalls(t, current[r]) :
                 (/\ pc[r] = "body"
                  /\ body_q[r] # <<>>
                  /\ Head(body_q[r]) = c
                  /\ popped'[r] # popped[r]) =>
                     /\ call_graph'[r] = call_graph[r]
                     /\ appended'[r] = appended[r]
                     /\ response'[r] = response[r]
                     /\ pc'[r] = "body"
                     /\ body_q'[r] = Tail(body_q[r]) \o children(t, c)
            /\ (~Pass2Over(r) /\ Pass2Over(r)') =>
                 \A d \in ProcessedDefs(t) : \A c \in UnnamedCalls(t, d) :
                     /\ \A i \in 1..Len(appended'[r]) : appended'[r][i].call # c
                     /\ \A g \in ResolvedCalls(t, d) :
                          IsAncestor(t, c, g) =>
                              /\ [def |-> d, call |-> g, name |-> NameAt(t, g)]
                                     \in Range(appended'[r])
                              /\ NameAt(t, g) \in
                                     Range(call_graph'[r].vals[NameAt(t, d)])]_vars

\* A result for a tree where a call with no identifier child holds, in its
\* arguments, a call of a catalog name, which was recorded.
C19_Witness ==
    /\ Returned(1)
    /\ \E d \in ProcessedDefs(tree[1]) :
         \E c \in UnnamedCalls(tree[1], d) :
           \E i \in 1..Len(appended[1]) :
             /\ appended[1][i].def = d
             /\ IsAncestor(tree[1], c, appended[1][i].call)

\* ------------------------------------------------------------------ C20
\* The processed definitions that bear name f.
DefsNamed(t, f) == {d \in ProcessedDefs(t) : NameAt(t, d) = f}

RECURSIVE CalleesOfDefs(_, _)
\* The resolved calls of the definitions ds, one definition after the other.
CalleesOfDefs(t, ds) ==
    IF ds = <<>> THEN <<>>
    ELSE NamesOf(t, InBfsOrder(t, ResolvedCalls(t, Head(ds))))
             \o CalleesOfDefs(t, Tail(ds))

\* C20: the call graph has one key per distinct name; every sequence is empty
\* as long as the resolution pass has dequeued nothing; and when the pass is
\* over the sequence of each name is the concatenation, in the order of the
\* outer loop, of the resolved calls of every processed definition that
\* bears the name.
C20_DuplicateNamesCollapse ==
    \A r \in Reqs :
        LET t == tree[r]
            cg == call_graph[r]
        IN /\ \A i, j \in 1..Len(cg.keys) : cg.keys[i] = cg.keys[j] => i = j
           /\ Range(cg.keys) = DOMAIN cg.vals
           /\ (pc[r] \in {"pass1", "pass2"} /\ PoppedIn(popped[r], "pass2") = <<>>) =>
                \A f \in DOMAIN cg.vals : cg.vals[f] = <<>>
           /\ Pass2Over(r) =>
                /\ Range(cg.keys) = Catalog(t)
                /\ \A f \in DOMAIN cg.vals :
                     cg.vals[f] = CalleesOfDefs(t, InBfsOrder(t, DefsNamed(t, f)))
           /\ Returned(r) => response[r].call_graph = cg

\* A result where two processed definitions bear one name, each with a
\* resolved call, and the name's one sequence holds the calls of both.
C20_Witness ==
    /\ Returned(1)
    /\ \E f \in DOMAIN response[1].call_graph.vals :
         \E d1, d2 \in DefsNamed(tree[1], f) :
           /\ d1 < d2
           /\ ResolvedCalls(tree[1], d1) # {}
           /\ ResolvedCalls(tree[1], d2) # {}
           /\ Len(response[1].call_graph.vals[f]) = 2
           /\ Count(response[1].call_graph.keys, f) = 1

\* ------------------------------------------------------------------ C21
\* C21: the key set of the returned call graph is the Function Catalog
\* exactly: the catalog the code built and the catalog of the tree; names of
\* functions with an empty sequence and names of nested functions are keys,
\* and nothing else is.
C21_KeysAreCatalog ==
    \A r \in Reqs :
        Returned(r) =>
            LET cg == response[r].call_graph
            IN /\ Range(cg.keys) = defined_functions[r]
               /\ DOMAIN cg.vals = defined_functions[r]
               /\ Range(cg.keys) = Catalog(tree[r])
               /\ Len(cg.keys) = Cardinality(Catalog(tree[r]))

\* A result whose keys include a nested function and a function that makes
\* no resolvable call, next to a function whose sequence is not empty.
C21_Witness ==
    /\ Returned(1)
    /\ \E d \in NamedDefs(tree[1]) :
         /\ InsideDef(tree[1], d)
         /\ NameAt(tree[1], d) \in Range(response[1].call_graph.keys)
    /\ \E d \in ProcessedDefs(tree[1]) :
         /\ ResolvedCalls(tree[1], d) = {}
         /\ response[1].call_graph.vals[NameAt(tree[1], d)] = <<>>
    /\ \E f \in DOMAIN response[1].call_graph.vals :
         response[1].call_graph.vals[f] # <<>>

\* ------------------------------------------------------------------ C22
\* Request r makes call x in this step: x is the entry the step adds to the
\* request's trace.
Calls(r, x) ==
    /\ Len(trace'[r]) > Len(trace[r])
    /\ trace'[r][Len(trace[r]) + 1] = x

\* C22: within one request the parser is loaded only after the language check
\* has passed; the parser is invoked only once it is loaded; the syntax-error
\* check reads the tree that parsing produced; build_call_graph is entered
\* only for a tree without error; and the complexity adapter is invoked only
\* after build_call_graph has emptied its queues and produced the whole call
\* graph of the tree, on a request that passed both checks.
C22_StepOrder ==
    [][\A r \in Reqs :
         /\ Calls(r, "get_parser") =>
              /\ trace[r] = <<>>
              /\ payload[r].language = "python"
         /\ Calls(r, "parse") =>
              /\ trace[r] = <<"get_parser">>
              /\ response[r] = NoResponse
         /\ (pc[r] = "has_error" /\ pc'[r] # "has_error") =>
              /\ trace[r] = <<"get_parser", "parse">>
              /\ tree[r] = syntax[r]
         /\ Calls(r, "build_call_graph") =>
              /\ trace[r] = <<"get_parser", "parse">>
              /\ ~has_error(tree[r])
         /\ Calls(r, "calculate_cyclomatic_complexity") =>
              /\ trace[r] = <<"get_parser", "parse", "build_call_graph">>
              /\ payload[r].language = "python"
              /\ ~has_error(tree[r])
              /\ q[r] = <<>> /\ body_q[r] = <<>>
              /\ call_graph[r] = ExpectedGraph(tree[r])
              /\ call_graph'[r] = call_graph[r]]_vars

\* A request that made all four calls and returned a graph with a recorded
\* call.
C22_Witness ==
    /\ Returned(1)
    /\ SubSeq(trace[1], 1, 4) = <<"get_parser", "parse", "build_call_graph",
                                  "calculate_cyclomatic_complexity">>
    /\ appended[1] # <<>>

\* ------------------------------------------------------------------ C23
\* The call nodes that lie inside no function definition.
OutsideCalls(t) == {n \in NodeIds(t) : t.kind[n] = "call" /\ ~InsideDef(t, n)}

\* C23: a call node outside every function definition is never dequeued by a
\* secondary walk and never the source of an append, whether or not its
\* callee is a catalog member; every name held by a callee sequence comes
\* from a logged append, so such a call adds nothing to the call graph.
C23_OutsideCallsIgnored ==
    \A r \in Reqs :
        LET t == tree[r]
        IN /\ \A i \in 1..Len(appended[r]) : appended[r][i].call \notin OutsideCalls(t)
           /\ \A i \in 1..Len(popped[r]) :
                popped[r][i].loop = "body" => popped[r][i].node \notin OutsideCalls(t)
           /\ TotalLen(call_graph[r], call_graph[r].keys) = Len(appended[r])
           /\ Returned(r) => response[r].call_graph = call_graph[r]

\* A result for a tree whose outer loop dequeued a call of a catalog name
\* that lies outside every function definition.
C23_Witness ==
    /\ Returned(1)
    /\ \E c \in OutsideCalls(tree[1]) :
         /\ find_child_node_by_type(tree[1], c, "identifier") # None
         /\ NameAt(tree[1], c) \in Catalog(tree[1])
         /\ c \in Range(PoppedIn(popped[1], "pass2"))
         /\ tree[1].parent[c] # 1

\* ------------------------------------------------------------------ C24
\* C24: whenever a secondary walk runs, the name of its function is a key
\* of call_graph, as is the name of every definition the resolution pass is
\* yet to process; every logged append went to a key that exists; and no
\* request ends in the internal error a missing key would raise.
C24_AppendKeyExists ==
    \A r \in Reqs :
        LET t == tree[r]
            cg == call_graph[r]
        IN /\ pc[r] = "body" => current_function_name[r] \in DOMAIN cg.vals
           /\ pc[r] \in {"pass2", "body"} =>
                \A d \in ProcessedDefs(t) : NameAt(t, d) \in DOMAIN cg.vals
           /\ \A i \in 1..Len(appended[r]) :
                NameAt(t, appended[r][i].def) \in DOMAIN cg.vals
           /\ response[r] # InternalError

\* A secondary walk that has just appended to the sequence of its function,
\* a definition that is not a statement of the module.
C24_Witness ==
    /\ pc[1] = "body"
    /\ tree[1].parent[current[1]] # 1
    /\ appended[1] # <<>>
    /\ appended[1][Len(appended[1])].def = current[1]
    /\ call_graph[1].vals[current_function_name[1]] # <<>>

\* ------------------------------------------------- build_call_graph alone
\* build_call_graph called on its own, as a function of a node and a source
\* text: the node need not be the root of an error-free module.
RootKinds == {"module", "block", "function_definition"}

\* Tree t with a root of type k.
WithRoot(t, k) == [t EXCEPT !.kind[1] = k]

BcgTrees == {WithRoot(t, k) : t \in Trees, k \in RootKinds}

InitBcg ==
    /\ \E t \in BcgTrees :
         /\ payload = [r \in Reqs |-> IF Idle(r) THEN [language |-> "", code |-> <<>>]
                                      ELSE [language |-> "python", code |-> CodeOf(t)]]
         /\ syntax = [r \in Reqs |-> IF Idle(r) THEN NoTree ELSE t]
         /\ tree = [r \in Reqs |-> IF Idle(r) THEN NoTree ELSE t]
    /\ pc = [r \in Reqs |-> IF Idle(r) THEN "idle" ELSE "build_call_graph"]
    /\ q = [r \in Reqs |-> <<>>]
    /\ body_q = [r \in Reqs |-> <<>>]
    /\ current = [r \in Reqs |-> None]
    /\ current_function_name = [r \in Reqs |-> <<>>]
    /\ defined_functions = [r \in Reqs |-> {}]
    /\ call_graph = [r \in Reqs |-> EmptyDict]
    /\ response = [r \in Reqs |-> NoResponse]
    /\ trace = [r \in Reqs |-> <<>>]
    /\ popped = [r \in Reqs |-> <<>>]
    /\ appended = [r \in Reqs |-> <<>>]
    /\ complexity = [r \in Reqs |-> NoComplexity]
    /\ runs = [r \in Reqs |-> IF Idle(r) THEN 0 ELSE 1]
    /\ previous = [r \in Reqs |-> NoGraph]

NextBcg ==
    \E r \in Reqs :
        \/ BcgEntry(r) \/ Pass1Step(r) \/ Pass1Done(r) \/ Pass2Step(r)
        \/ BodyStep(r) \/ BodyDone(r) \/ Pass2Done(r)

\* The interpreter runs the function's next statement as long as there is
\* one: a step that is possible is eventually taken.
SpecBcg == InitBcg /\ [][NextBcg]_vars /\ WF_vars(NextBcg)

\* build_call_graph has returned to its caller.
BcgReturned(r) == pc[r] = "complexity"

\* ------------------------------------------------------------------ C25
\* The nodes strictly below a function definition that is itself inside a
\* function definition.
BelowNestedDef(t) ==
    {n \in NodeIds(t) :
        \E d \in FunctionDefs(t) : InsideDef(t, d) /\ IsAncestor(t, d, n)}

\* No node is dequeued twice by the loops of the resolution pass, outer and
\* secondary taken together, and no node below a nested definition at all.
DequeuedAtMostOnce(r) ==
    /\ \A i, j \in 1..Len(popped[r]) :
         (/\ i # j
          /\ popped[r][i].loop # "pass1"
          /\ popped[r][j].loop # "pass1") => popped[r][i].node # popped[r][j].node
    /\ \A i \in 1..Len(popped[r]) :
         popped[r][i].loop # "pass1" =>
             popped[r][i].node \notin BelowNestedDef(tree[r])

\* C25: the resolution pass, once entered, ends (build_call_graph returns);
\* during it each node is dequeued at most once, the outer queue and all
\* secondary queues counted together, and the nodes strictly below a
\* function definition nested in another one are never dequeued.
C25_ResolutionTerminates ==
    /\ [](\A r \in Reqs : DequeuedAtMostOnce(r))
    /\ \A r \in Reqs : (pc[r] = "pass2") ~> BcgReturned(r)

\* The resolution pass has ended on a tree with nodes below a nested
\* definition, after both the outer loop and a secondary walk dequeued nodes.
C25_Witness ==
    /\ BcgReturned(1)
    /\ BelowNestedDef(tree[1]) # {}
    /\ PoppedIn(popped[1], "body") # <<>>
    /\ Len(PoppedIn(popped[1], "pass2")) > 1

\* ------------------------------------------------------------------ C26
\* Call graph new is call graph old with one name appended to one sequence.
OneAppend(old, new) ==
    /\ new.keys = old.keys
    /\ DOMAIN new.vals = DOMAIN old.vals
    /\ \E f \in DOMAIN old.vals :
         /\ Len(new.vals[f]) = Len(old.vals[f]) + 1
         /\ SubSeq(new.vals[f], 1, Len(old.vals[f])) = old.vals[f]
         /\ \A g \in DOMAIN old.vals \ {f} : new.vals[g] = old.vals[g]

\* C26: every step taken inside the resolution pass leaves defined_functions
\* and the keys of call_graph as they are, and either leaves call_graph
\* unchanged or appends one name to exactly one of its sequences; no
\* sequence is reset or shortened.
C26_FrozenCatalogAppendOnly ==
    [][\A r \in Reqs :
         pc[r] \in {"pass2", "body"} =>
             /\ defined_functions'[r] = defined_functions[r]
             /\ call_graph'[r].keys = call_graph[r].keys
             /\ \/ call_graph'[r] = call_graph[r]
                \/ OneAppend(call_graph[r], call_graph'[r])]_vars

\* The outer loop of the resolution pass is back from a secondary walk,
\* after appends to the sequences of two functions.
C26_Witness ==
    /\ pc[1] = "pass2"
    /\ Len(appended[1]) >= 2
    /\ \E f, g \in DOMAIN call_graph[1].vals :
         /\ f # g
         /\ call_graph[1].vals[f] # <<>>
         /\ call_graph[1].vals[g] # <<>>

\* ------------------------------------------------------------------ C27
\* The named definitions nested inside processed definition d.
NestedIn(t, d) == {n \in NamedDefs(t) : IsAncestor(t, d, n)}

\* The calls, reached by the walk of d, of a function nested inside d.
CallsToNested(t, d) ==
    {c \in NamedCalls(t, d) : \E n \in NestedIn(t, d) : NameAt(t, c) = NameAt(t, n)}

C28_NonModuleRootEmpty ==
    \A r \in Reqs :
        (~Idle(r) /\ tree[r].kind[1] # "module") =>
            /\ pc[r] \in {"build_call_graph", "complexity"}
            /\ popped[r] = <<>>
            /\ appended[r] = <<>>
            /\ q[r] = <<>> /\ body_q[r] = <<>>
            /\ defined_functions[r] = {}
            /\ call_graph[r] = EmptyDict

\* build_call_graph has returned for a root that is no module although the
\* tree holds a named definition with a call of a catalog name.
C28_Witness ==
    /\ BcgReturned(1)
    /\ tree[1].kind[1] # "module"
    /\ \E d \in NamedDefs(tree[1]) : ResolvedCalls(tree[1], d) # {}
    /\ call_graph[1] = EmptyDict
====
